---- MODULE Spec2Model ----
(***************************************************************************)
(* A model of the iFunny scraper (src/src/main.rs): the link collector     *)
(* get_links, the media reference IFunnyLink and the orchestrator          *)
(* archive_user.                                                           *)
(*                                                                         *)
(* Strings are sequences of one-character strings, so that splitting,      *)
(* parsing and formatting are computed and not assumed.  An f64 is held as *)
(* an integer number of tenths (25 is 2.5, 100 is 10.0); the attribute     *)
(* values the model feeds in carry at most one fractional digit.           *)
(***************************************************************************)
EXTENDS Integers, Sequences, FiniteSets, TLC

(***************************************************************************)
(* Bounds of the model.                                                    *)
(***************************************************************************)
\* largest num_pages (opts.num_pages) the model runs with
MaxPages == 2
\* largest number of child nodes of a page body
MaxChildren == 2
\* longest chain of nested elements in the documents drawn for Extract
MaxDepth == 7
\* largest height and width of the source images drawn for the crop
MaxHeight == 40
MaxWidth == 3

(***************************************************************************)
(* Option values: None, or Some(v).                                        *)
(***************************************************************************)
None == << >>
Some(v) == << v >>
IsSome(o) == o # None
Unwrap(o) == o[1]

(***************************************************************************)
(* Text: str::parse::<f64>, Display for f64 and u64, rsplitn.              *)
(***************************************************************************)
DigitChars == << "0", "1", "2", "3", "4", "5", "6", "7", "8", "9" >>

IsDigit(c) == \E i \in 1..10 : DigitChars[i] = c

DigitVal(c) == (CHOOSE i \in 1..10 : DigitChars[i] = c) - 1

IsDigits(s) == \A i \in 1..Len(s) : IsDigit(s[i])

RECURSIVE ParseDigits(_)
ParseDigits(s) ==
    IF s = << >> THEN 0
    ELSE 10 * ParseDigits(SubSeq(s, 1, Len(s) - 1)) + DigitVal(s[Len(s)])

\* positions of the character c in s
Positions(s, c) == { i \in 1..Len(s) : s[i] = c }

\* ts.parse::<f64>().ok(), in tenths: decimal digits with at most one '.',
\* at least one digit overall; anything else does not parse.
ParseF64(s) ==
    LET dots == Positions(s, ".")
    IN  IF dots = {}
        THEN IF s # << >> /\ IsDigits(s) THEN Some(10 * ParseDigits(s)) ELSE None
        ELSE IF Cardinality(dots) > 1 THEN None
        ELSE LET k    == CHOOSE i \in dots : TRUE
                 ip   == SubSeq(s, 1, k - 1)
                 fp   == SubSeq(s, k + 1, Len(s))
             IN  IF /\ IsDigits(ip) /\ IsDigits(fp)
                    /\ Len(ip) + Len(fp) > 0
                    /\ Len(fp) <= 1
                 THEN Some(10 * ParseDigits(ip) + ParseDigits(fp))
                 ELSE None

RECURSIVE FormatU64(_)
\* format!("{}", n) of an unsigned integer
FormatU64(n) ==
    IF n < 10 THEN << DigitChars[n + 1] >>
    ELSE Append(FormatU64(n \div 10), DigitChars[(n % 10) + 1])

\* format!("{}", x) of a non-negative f64 held in tenths: an integral value
\* prints without a fractional part ("10", not "10.0")
FormatF64(x) ==
    IF x % 10 = 0 THEN FormatU64(x \div 10)
    ELSE FormatU64(x \div 10) \o << ".", DigitChars[(x % 10) + 1] >>

\* url.rsplitn(2, "/").next(): the text after the last '/', the whole text
\* when there is none; the iterator always yields a first item
RSplitN2First(s) ==
    LET sl == Positions(s, "/")
    IN  IF sl = {} THEN Some(s)
        ELSE LET k == CHOOSE i \in sl : \A j \in sl : j <= i
             IN  Some(SubSeq(s, k + 1, Len(s)))

(***************************************************************************)
(* The parsed document (scraper::Html): a node is a record of its tag, its *)
(* classes, the three attributes the collector reads and its children in   *)
(* document order.  A text node has the tag "#text".                       *)
(***************************************************************************)
Attrs(next, source, src) ==
    [data_next |-> next, data_source |-> source, data_src |-> src]

NoAttrs == Attrs(None, None, None)

El(tag, classes, attrs, kids) ==
    [tag |-> tag, classes |-> classes, attrs |-> attrs, kids |-> kids]

TextNode == El("#text", {}, NoAttrs, << >>)

\* ElementRef::wrap(node) is Some exactly for element nodes
IsElement(node) == node.tag # "#text"

RECURSIVE Traverse(_, _)
RECURSIVE TraverseAll(_, _)
\* the subtree of node in document order, each node as the path of element
\* records leading to it from the child of the body it lies in
Traverse(node, anc) ==
    LET p == Append(anc, node)
    IN  << p >> \o TraverseAll(node.kids, p)

TraverseAll(kids, p) ==
    IF kids = << >> THEN << >>
    ELSE Traverse(Head(kids), p) \o TraverseAll(Tail(kids), p)

\* one compound selector: a tag, and a class when one is required
Compound(tag, class) == [tag |-> tag, class |-> class]

\* Selector::parse("div > div.post__media > div")
vid_media_selector ==
    << Compound("div", None), Compound("div", Some("post__media")),
       Compound("div", None) >>

\* Selector::parse("div > div.post__media > div > div > a > img")
img_media_selector ==
    << Compound("div", None), Compound("div", Some("post__media")),
       Compound("div", None), Compound("div", None),
       Compound("a", None), Compound("img", None) >>

MatchesCompound(c, node) ==
    /\ IsElement(node)
    /\ node.tag = c.tag
    /\ IsSome(c.class) => Unwrap(c.class) \in node.classes

\* a chain of child combinators matches the node at the end of path when
\* the last compound matches it, the one before matches its parent, and so
\* on.  The ancestors above the path are body and html, which are no div.
Matches(sel, path) ==
    /\ Len(path) >= Len(sel)
    /\ \A k \in 0..(Len(sel) - 1) :
           MatchesCompound(sel[Len(sel) - k], path[Len(path) - k])

\* elem.select(&sel).next(): the first proper descendant of elem, in
\* document order, that the selector matches
SelectFirst(elem, sel) ==
    LET all  == Traverse(elem, << >>)
        hits == { i \in 2..Len(all) : Matches(sel, all[i]) }
    IN  IF hits = {} THEN None
        ELSE LET i == CHOOSE h \in hits : \A j \in hits : h <= j
             IN  Some(all[i][Len(all[i])])

(***************************************************************************)
(* Media references (enum IFunnyLink).                                     *)
(***************************************************************************)
Moving(url) == [kind |-> "Moving", url |-> url]

Still(url) == [kind |-> "Still", url |-> url]

\* IFunnyLink::url
Url(link) == link.url

\* unix_secs(): the readings of the system clock the model draws from
ClockReadings == { 170, 171 }

\* IFunnyLink::file_name: the else branch needs a clock reading t, and is
\* taken only when rsplitn yields nothing
FileName(link, t) ==
    LET first == RSplitN2First(Url(link))
    IN  IF IsSome(first) THEN Unwrap(first) ELSE FormatU64(t)

\* dl_folder.join(link.file_name()): the folder is opts.username
UserName == << "u" >>

DestPath(link, t) == UserName \o << "/" >> \o FileName(link, t)

(***************************************************************************)
(* The inputs: what the server can put into a timeline page.               *)
(***************************************************************************)
UA == << "a", "/", "x" >>
UB == << "b", "/", "x" >>
UC == << "y" >>

MediaUrls == { UA, UB, UC }

Div(classes, attrs, kids) == El("div", classes, attrs, kids)

\* <img> below <a> below <div>: the tail of the image selector
ImgTail(src) ==
    Div({}, NoAttrs, << El("a", {}, NoAttrs, << El("img", {}, Attrs(None, None, src), << >>) >>) >>)

\* a post whose media container carries the video source
VideoPost(next, u) ==
    Div({"post"}, Attrs(next, None, None),
        << Div({"post__media"}, NoAttrs,
               << Div({"media"}, Attrs(None, Some(u), None), << >>) >>) >>)

\* a post whose media container has no video source and holds an image
ImagePost(next, src) ==
    Div({"post"}, Attrs(next, None, None),
        << Div({"post__media"}, NoAttrs,
               << Div({"media"}, NoAttrs, << ImgTail(src) >>) >>) >>)

\* a post whose media container carries a video source and holds an image
BothPost(u, v) ==
    Div({"post"}, NoAttrs,
        << Div({"post__media"}, NoAttrs,
               << Div({"media"}, Attrs(None, Some(u), None), << ImgTail(Some(v)) >>) >>) >>)

\* a post with two media containers: the first holds an image and has no
\* video source, the second carries a video source
TwoMediaPost(u, v) ==
    Div({"post"}, NoAttrs,
        << Div({"post__media"}, NoAttrs,
               << Div({"media"}, NoAttrs, << ImgTail(Some(u)) >>),
                  Div({"media"}, Attrs(None, Some(v), None), << >>) >>) >>)

\* an image with a source below containers that are no post__media
LooseImage(u) ==
    Div({"post"}, NoAttrs,
        << Div({"post__text"}, NoAttrs,
               << Div({}, Attrs(None, Some(u), None), << ImgTail(Some(u)) >>) >>) >>)

\* an image below a post__media container that is itself the child of the
\* body
ShallowImage(u) ==
    Div({"post__media"}, NoAttrs, << Div({"media"}, NoAttrs, << ImgTail(Some(u)) >>) >>)

\* an image post one level further down, inside a list item
WrappedImagePost(u) == El("li", {}, NoAttrs, << ImagePost(None, Some(u)) >>)

\* an element without media
Banner(next) == Div({"banner"}, Attrs(next, None, None), << TextNode >>)

\* the child nodes of a page body the model draws from; the state names a
\* node by its place in this catalogue
ChildNodes ==
    << VideoPost(None, UA), VideoPost(None, UB), VideoPost(None, UC),
       ImagePost(None, Some(UA)), WrappedImagePost(UB), TwoMediaPost(UC, UA),
       VideoPost(Some(<< "2", ".", "5" >>), UA), BothPost(UB, UA),
       Banner(None), Banner(Some(<< "7" >>)), Banner(Some(<< "7", ".", "0" >>)),
       Banner(Some(<< "n", "o" >>)), Banner(Some(<< >>)),
       ImagePost(None, None), LooseImage(UA), ShallowImage(UB), TextNode >>

Children == 1..Len(ChildNodes)

(***************************************************************************)
(* get_links, one child node of the body (lines 200-248).                  *)
(***************************************************************************)
\* lines 202-206: elem.value().attr("data-next").map(parse).flatten()
DataNext(elem) ==
    IF IsSome(elem.attrs.data_next)
    THEN ParseF64(Unwrap(elem.attrs.data_next))
    ELSE None

\* DataNext over the nodes the model draws from, computed once
ParsedNext == [k \in Children |-> DataNext(ChildNodes[k])]

\* NextTimestamp with the first parseable value kept for the whole run
NextTimestampFirstWins(ts, next_ts) ==
    IF IsSome(ts) /\ ~IsSome(next_ts) THEN Some(Unwrap(ts)) ELSE next_ts

\* lines 202-209: the cursor after an element whose data-next parsed to ts
NextTimestamp(ts, next_ts) ==
    IF IsSome(ts) THEN Some(Unwrap(ts)) ELSE next_ts

\* Extract with the image looked for before the video
ExtractImageFirst(elem) ==
    LET img == SelectFirst(elem, img_media_selector)
        vid == SelectFirst(elem, vid_media_selector)
    IN  IF IsSome(img) /\ IsSome(Unwrap(img).attrs.data_src)
        THEN Some(Still(Unwrap(Unwrap(img).attrs.data_src)))
        ELSE IF IsSome(vid) /\ IsSome(Unwrap(vid).attrs.data_source)
             THEN Some(Moving(Unwrap(Unwrap(vid).attrs.data_source)))
             ELSE None

\* lines 210-246 without the bookkeeping: the reference the element yields.
\* The image selector is tried only below a matched video container that
\* has no data-source.
Extract(elem) ==
    LET vid == SelectFirst(elem, vid_media_selector)
    IN  IF IsSome(vid)
        THEN IF IsSome(Unwrap(vid).attrs.data_source)
             THEN Some(Moving(Unwrap(Unwrap(vid).attrs.data_source)))
             ELSE LET img == SelectFirst(elem, img_media_selector)
                  IN  IF IsSome(img)
                      THEN IF IsSome(Unwrap(img).attrs.data_src)
                           THEN Some(Still(Unwrap(Unwrap(img).attrs.data_src)))
                           ELSE None
                      ELSE None
        ELSE None

\* the duplicate-hit threshold of lines 216 and 231
DuplicateLimit == 2

\* the locals of get_links that one child node can change
Locals(l, s, d, n) ==
    [links |-> l, seen_cache |-> s, duplicate_hits |-> d, next_timestamp |-> n,
     returned |-> FALSE]

\* Collect with the collection ending at the first duplicate hit
CollectStopsAtFirstHit(link, st) ==
    IF Url(link) \in st.seen_cache
    THEN [st EXCEPT !.duplicate_hits = @ + 1, !.returned = TRUE]
    ELSE [st EXCEPT !.seen_cache = @ \cup { Url(link) },
                    !.links = Append(@, link)]

\* Collect with the counter counting consecutive hits: a new URL resets it
CollectResetsOnNew(link, st) ==
    IF Url(link) \in st.seen_cache
    THEN LET hits == st.duplicate_hits + 1
         IN  [st EXCEPT !.duplicate_hits = hits,
                        !.returned = (hits >= DuplicateLimit)]
    ELSE [st EXCEPT !.seen_cache = @ \cup { Url(link) },
                    !.links = Append(@, link),
                    !.duplicate_hits = 0]

\* Collect with a reference looked up by kind and URL, not by URL alone
CollectByReference(link, st) ==
    IF \E i \in 1..Len(st.links) : st.links[i] = link
    THEN LET hits == st.duplicate_hits + 1
         IN  [st EXCEPT !.duplicate_hits = hits,
                        !.returned = (hits >= DuplicateLimit)]
    ELSE [st EXCEPT !.seen_cache = @ \cup { Url(link) },
                    !.links = Append(@, link)]

\* Collect with new references put in front of the vector
CollectPrepends(link, st) ==
    IF Url(link) \in st.seen_cache
    THEN LET hits == st.duplicate_hits + 1
         IN  [st EXCEPT !.duplicate_hits = hits,
                        !.returned = (hits >= DuplicateLimit)]
    ELSE [st EXCEPT !.seen_cache = @ \cup { Url(link) },
                    !.links = << link >> \o @]

\* lines 213-223 and 228-238: a reference whose URL was seen counts as a
\* duplicate hit and ends the collection at the limit; a new one is
\* remembered and appended
Collect(link, st) ==
    IF Url(link) \in st.seen_cache
    THEN LET hits == st.duplicate_hits + 1
         IN  [st EXCEPT !.duplicate_hits = hits,
                        !.returned = (hits >= DuplicateLimit)]
    ELSE [st EXCEPT !.seen_cache = @ \cup { Url(link) },
                    !.links = Append(@, link)]

\* Extract over the nodes the model draws from, computed once
Extracted == [k \in Children |-> Extract(ChildNodes[k])]

\* ProcessNode with the cursor read only from elements that yield a
\* reference
ProcessNodeCursorWithMedia(k, st) ==
    IF ~IsElement(ChildNodes[k]) THEN st
    ELSE LET st1 == [st EXCEPT !.next_timestamp = NextTimestamp(ParsedNext[k], @)]
             got == Extracted[k]
         IN  IF IsSome(got) THEN Collect(Unwrap(got), st1) ELSE st

\* lines 200-248 for one child node of the body, the k-th of the catalogue
ProcessNode(k, st) ==
    IF ~IsElement(ChildNodes[k]) THEN st
    ELSE LET st1 == [st EXCEPT !.next_timestamp = NextTimestamp(ParsedNext[k], @)]
             got == Extracted[k]
         IN  IF IsSome(got) THEN Collect(Unwrap(got), st1) ELSE st1

(***************************************************************************)
(* The state.                                                              *)
(***************************************************************************)
VARIABLES
    pc,              \* where the task stands (archive_user and get_links)
    num_pages,       \* opts.num_pages
    page,            \* get_links: the loop index
    links,           \* get_links: the result vector
    seen_cache,      \* get_links: the URLs seen
    duplicate_hits,  \* get_links: the duplicate-hit counter
    next_timestamp,  \* get_links: Option<f64>, the cursor
    html,            \* get_links: the body text of this page, None before it
    nchildren,       \* get_links: number of child nodes of the parsed body
    pos,             \* get_links: child nodes of this body already visited
    elem,            \* get_links: the child node visited last (NoNode: none)
    result,          \* what get_links returned
    request,         \* the URL of the page request sent last, None before it
    nrequests,       \* page requests sent
    in_flight,       \* page requests sent and not yet answered
    sleeps,          \* task::sleep calls completed
    calls,           \* calls of get_links
    media_links,     \* archive_user: the collected references
    manifest,        \* content of links.txt, None while not written
    futs,            \* archive_user: the download futures
    files,           \* media files written: path -> URL they came from
    stdout,          \* the report lines printed by archive_user
    exit,            \* what archive_user returned
    dom,             \* SpecDom only: the child node Extract is applied to
    image,           \* SpecImage only: the decoded source image
    crop             \* SpecImage only: what download_ifunny_image came to

collector == << page, links, seen_cache, duplicate_hits, next_timestamp, html,
                nchildren, pos, elem >>

network == << request, nrequests, in_flight, sleeps >>

archive == << media_links, manifest, futs, files, stdout, exit >>

still == << image, crop >>

vars == << pc, num_pages, collector, result, network, calls, archive, dom, still >>

\* the value of elem outside the loop over the children
NoNode == 0

Ok(l) == [tag |-> "Ok", err |-> "", links |-> l]

Err(e) == [tag |-> "Err", err |-> e, links |-> << >>]

Pending == [tag |-> "Pending", err |-> "", links |-> << >>]

\* format!("https://ifunny.co/user/{}/timeline/{}?page={}&mode=list", ..)
RequestUrl(username, time_unix, pg) ==
    [user |-> username, timeline |-> FormatF64(time_unix), page |-> FormatU64(pg)]

\* next_timestamp.unwrap_or_else(|| unix_secs() as f64), t the clock reading
TimeUnix(next_ts, t) == IF IsSome(next_ts) THEN Unwrap(next_ts) ELSE 10 * t

\* the locals and the outputs before archive_user has done anything
Fresh ==
    /\ page = 0
    /\ links = << >>
    /\ seen_cache = {}
    /\ duplicate_hits = 0
    /\ next_timestamp = None
    /\ html = None
    /\ nchildren = 0
    /\ pos = 0
    /\ elem = NoNode
    /\ result = Pending
    /\ request = None
    /\ nrequests = 0
    /\ in_flight = 0
    /\ sleeps = 0
    /\ calls = 0
    /\ media_links = << >>
    /\ manifest = None
    /\ futs = << >>
    /\ files = << >>
    /\ stdout = << >>
    /\ exit = Pending

\* no image has been decoded, nothing has come of a download
NoImage == [width |-> << >>, height |-> << >>]

NoCrop == [tag |-> "Pending", width |-> << >>, height |-> << >>]

Init ==
    /\ pc = "start"
    /\ num_pages \in 0..MaxPages
    /\ dom = TextNode
    /\ image = NoImage
    /\ crop = NoCrop
    /\ Fresh

(***************************************************************************)
(* get_links                                                               *)
(***************************************************************************)
\* get_links returns r: the task is back in archive_user
Return(r) ==
    /\ pc' = "returned"
    /\ result' = r

\* lines 55-70: the output folder, then the call of get_links (lines 157-168)
CallGetLinks ==
    /\ pc = "start"
    /\ calls' = calls + 1
    /\ pc' = "loop"
    /\ UNCHANGED << dom, still, num_pages, collector, result, network, archive >>

\* line 60: create_dir_all fails
CreateDirFails ==
    /\ pc = "start"
    /\ pc' = "exit"
    /\ exit' = Err("Io")
    /\ UNCHANGED << dom, still, num_pages, collector, result, network, calls, media_links,
                    manifest, futs, files, stdout >>

\* Sleep with the delay made between two pages only, not before the first
SleepBetweenPages ==
    /\ pc = "loop"
    /\ page < num_pages
    /\ sleeps' = (IF page = 0 THEN sleeps ELSE sleeps + 1)
    /\ pc' = "send"
    /\ UNCHANGED << dom, still, num_pages, collector, result, request, nrequests, in_flight, calls,
                    archive >>

\* Sleep with the loop running over 0..=num_pages, one page too many
SleepInclusive ==
    /\ pc = "loop"
    /\ page <= num_pages
    /\ sleeps' = sleeps + 1
    /\ pc' = "send"
    /\ UNCHANGED << dom, still, num_pages, collector, result, request, nrequests, in_flight, calls,
                    archive >>

\* lines 170-171: the loop takes the next page index and sleeps
Sleep ==
    /\ pc = "loop"
    /\ page < num_pages
    /\ sleeps' = sleeps + 1
    /\ pc' = "send"
    /\ UNCHANGED << dom, still, num_pages, collector, result, request, nrequests, in_flight, calls,
                    archive >>

\* lines 170, 252-253: the loop is over
LoopExit ==
    /\ pc = "loop"
    /\ page >= num_pages
    /\ Return(Ok(links))
    /\ UNCHANGED << dom, still, num_pages, collector, network, calls, archive >>

\* lines 172-189: the progress line, the URL, the request is sent
SendRequest ==
    /\ pc = "send"
    /\ \E t \in ClockReadings :
           request' = Some(RequestUrl(UserName, TimeUnix(next_timestamp, t), page))
    /\ nrequests' = nrequests + 1
    /\ in_flight' = in_flight + 1
    /\ pc' = "await"
    /\ UNCHANGED << dom, still, num_pages, collector, result, sleeps, calls, archive >>

\* line 179: flushing the progress line fails
FlushFails ==
    /\ pc = "send"
    /\ Return(Err("Io"))
    /\ UNCHANGED << dom, still, num_pages, collector, network, calls, archive >>

\* lines 190-192: the request or the reading of the body fails
RequestFails ==
    /\ pc = "await"
    /\ in_flight' = in_flight - 1
    /\ Return(Err("Network"))
    /\ UNCHANGED << dom, still, num_pages, collector, request, nrequests, sleeps, calls, archive >>

\* the body texts the server answers with: an empty one and a document
Bodies == { "", "<html>" }

\* lines 190-192: the answer arrives and its body is read
ReceiveResponse ==
    /\ pc = "await"
    /\ in_flight' = in_flight - 1
    /\ \E text \in Bodies : html' = Some(text)
    /\ pc' = "check"
    /\ UNCHANGED << dom, still, num_pages, page, links, seen_cache, duplicate_hits,
                    next_timestamp, nchildren, pos, elem, result, request,
                    nrequests, sleeps, calls, archive >>

\* EmptyBodyResult with an empty body taken for the end of the timeline
EmptyBodyEndsCollection(ls) == Ok(ls)

\* lines 193-196: what get_links returns on an empty body, having
\* collected ls so far
EmptyBodyResult(ls) == Err("RateLimited")

\* lines 193-196: the body is empty
RateLimited ==
    /\ pc = "check"
    /\ Unwrap(html) = ""
    /\ Return(EmptyBodyResult(links))
    /\ UNCHANGED << dom, still, num_pages, collector, network, calls, archive >>

\* lines 198-200: the body is parsed; it has n child nodes
ParseBody ==
    /\ pc = "check"
    /\ Unwrap(html) # ""
    /\ \E n \in 0..MaxChildren : nchildren' = n
    /\ pos' = 0
    /\ elem' = NoNode
    /\ pc' = "children"
    /\ UNCHANGED << dom, still, num_pages, page, links, seen_cache, duplicate_hits,
                    next_timestamp, html, result, network, calls, archive >>

\* lines 200-248: the next child node of the body.  The node is drawn when
\* the loop reaches it: the loop reads each node once, in document order.
VisitChild ==
    /\ pc = "children"
    /\ pos < nchildren
    /\ \E k \in Children :
         LET st == ProcessNode(k, Locals(links, seen_cache, duplicate_hits,
                                         next_timestamp))
         IN  /\ elem' = k
             /\ links' = st.links
             /\ seen_cache' = st.seen_cache
             /\ duplicate_hits' = st.duplicate_hits
             /\ next_timestamp' = st.next_timestamp
             /\ IF st.returned
                THEN Return(Ok(st.links))
                ELSE pc' = "children" /\ UNCHANGED result
    /\ pos' = pos + 1
    /\ UNCHANGED << dom, still, num_pages, page, html, nchildren, network, calls, archive >>

\* lines 170, 248-250: the children are done, on to the next page index
NextPage ==
    /\ pc = "children"
    /\ pos >= nchildren
    /\ page' = page + 1
    /\ html' = None
    /\ nchildren' = 0
    /\ pos' = 0
    /\ elem' = NoNode
    /\ pc' = "loop"
    /\ UNCHANGED << dom, still, num_pages, links, seen_cache, duplicate_hits, next_timestamp,
                    result, network, calls, archive >>

(***************************************************************************)
(* archive_user                                                            *)
(***************************************************************************)
\* the locals of get_links are gone once archive_user goes on
DropLocals ==
    /\ page' = 0
    /\ links' = << >>
    /\ seen_cache' = {}
    /\ duplicate_hits' = 0
    /\ next_timestamp' = None
    /\ html' = None
    /\ nchildren' = 0
    /\ pos' = 0
    /\ elem' = NoNode

RECURSIVE Join(_, _)
\* [..].join(sep)
Join(strs, sep) ==
    IF strs = << >> THEN << >>
    ELSE IF Len(strs) = 1 THEN strs[1]
    ELSE strs[1] \o sep \o Join(Tail(strs), sep)

RECURSIVE LinksStrTerminated(_)
\* LinksStr with every URL ended by a newline, the last one too
LinksStrTerminated(ls) ==
    IF ls = << >> THEN << >>
    ELSE Url(Head(ls)) \o << "\n" >> \o LinksStrTerminated(Tail(ls))

\* quick_save_links, lines 116-120: the text written to links.txt
LinksStr(ls) == Join([i \in 1..Len(ls) |-> Url(ls[i])], << "\n" >>)

\* CollectFailed with the failure taken for an empty collection: the links
\* are saved and the downloads go on
CollectFailureSaved ==
    /\ pc = "returned"
    /\ result.tag = "Err"
    /\ manifest' = Some(LinksStr(result.links))
    /\ stdout' = Append(stdout, [line |-> "Collected", count |-> Len(result.links)])
    /\ pc' = "spawn"
    /\ DropLocals
    /\ UNCHANGED << dom, still, num_pages, result, network, calls, media_links, futs,
                    files, exit >>

\* line 70: get_links failed, the error is passed on
CollectFailed ==
    /\ pc = "returned"
    /\ result.tag = "Err"
    /\ exit' = result
    /\ pc' = "exit"
    /\ DropLocals
    /\ UNCHANGED << dom, still, num_pages, result, network, calls, media_links, manifest,
                    futs, files, stdout >>

\* lines 70-74: the links are saved and the first report line is printed
SaveLinks ==
    /\ pc = "returned"
    /\ result.tag = "Ok"
    /\ media_links' = result.links
    /\ manifest' = Some(LinksStr(result.links))
    /\ stdout' = Append(stdout, [line |-> "Collected", count |-> Len(result.links)])
    /\ pc' = "spawn"
    /\ DropLocals
    /\ UNCHANGED << dom, still, num_pages, result, network, calls, futs, files, exit >>

\* line 73: writing links.txt fails
SaveLinksFails ==
    /\ pc = "returned"
    /\ result.tag = "Ok"
    /\ media_links' = result.links
    /\ exit' = Err("Io")
    /\ pc' = "exit"
    /\ DropLocals
    /\ UNCHANGED << dom, still, num_pages, result, network, calls, manifest, futs, files,
                    stdout >>

\* lines 76-79: one download future per link; none has been polled yet
NewFutures(ls, t) ==
    [i \in 1..Len(ls) |->
        [link |-> ls[i], location |-> DestPath(ls[i], t), state |-> "created"]]

SpawnDownloads ==
    /\ pc = "spawn"
    /\ \E t \in ClockReadings : futs' = NewFutures(media_links, t)
    /\ pc' = "join"
    /\ UNCHANGED << dom, still, num_pages, collector, result, network, calls, media_links,
                    manifest, files, stdout, exit >>

\* line 80: try_collect polls a future for the first time
StartDownload(i) ==
    /\ pc = "join"
    /\ futs[i].state = "created"
    /\ futs' = [futs EXCEPT ![i].state = "running"]
    /\ UNCHANGED << pc, dom, still, num_pages, collector, result, network, calls,
                    media_links, manifest, files, stdout, exit >>

\* lines 89-106: a download ends well, its file is written
DownloadOk(i) ==
    /\ pc = "join"
    /\ futs[i].state = "running"
    /\ futs' = [futs EXCEPT ![i].state = "done"]
    /\ files' = (futs[i].location :> Url(futs[i].link)) @@ files
    /\ UNCHANGED << pc, dom, still, num_pages, collector, result, network, calls,
                    media_links, manifest, stdout, exit >>

\* line 80: the futures still alive when try_collect gives up are dropped
DropFutures(fs, failed) ==
    [i \in 1..Len(fs) |->
        IF i = failed THEN [fs[i] EXCEPT !.state = "failed"]
        ELSE IF fs[i].state \in {"created", "running"}
             THEN [fs[i] EXCEPT !.state = "dropped"]
             ELSE fs[i]]

\* DownloadFails with the error kept and the other downloads awaited
DownloadFailureIgnored(i) ==
    /\ pc = "join"
    /\ futs[i].state = "running"
    /\ futs' = [futs EXCEPT ![i].state = "failed"]
    /\ UNCHANGED << pc, dom, still, num_pages, collector, result, network, calls,
                    media_links, manifest, files, stdout, exit >>

\* line 80: a download fails; try_collect ends with its error
DownloadFails(i) ==
    /\ pc = "join"
    /\ futs[i].state = "running"
    /\ futs' = DropFutures(futs, i)
    /\ exit' = Err("Download")
    /\ pc' = "exit"
    /\ UNCHANGED << dom, still, num_pages, collector, result, network, calls, media_links,
                    manifest, files, stdout >>

\* AllDone with one finished download being enough
AnyDone(fs) == \E i \in 1..Len(fs) : fs[i].state = "done"

\* lines 80-86: every download is done, the totals are printed
AllDone(fs) == \A i \in 1..Len(fs) : fs[i].state = "done"

ReportTotals ==
    /\ pc = "join"
    /\ AllDone(futs)
    /\ stdout' = Append(stdout, [line |-> "Downloaded", count |-> Len(media_links)])
    /\ exit' = Ok(<< >>)
    /\ pc' = "exit"
    /\ UNCHANGED << dom, still, num_pages, collector, result, network, calls, media_links,
                    manifest, futs, files >>

Next ==
    \/ CallGetLinks
    \/ CreateDirFails
    \/ Sleep
    \/ LoopExit
    \/ SendRequest
    \/ FlushFails
    \/ RequestFails
    \/ ReceiveResponse
    \/ RateLimited
    \/ ParseBody
    \/ VisitChild
    \/ NextPage
    \/ CollectFailed
    \/ SaveLinks
    \/ SaveLinksFails
    \/ SpawnDownloads
    \/ \E i \in 1..Len(futs) : StartDownload(i)
    \/ \E i \in 1..Len(futs) : DownloadOk(i)
    \/ \E i \in 1..Len(futs) : DownloadFails(i)
    \/ ReportTotals

Spec == Init /\ [][Next]_vars

\* the step VisitChild, told by the position alone: no other step moves
\* pos forward while children are left
VisitNext == pc = "children" /\ pos < nchildren /\ pos' = pos + 1

\* The task of get_links is polled again whenever it can go on: a sleep
\* ends, every request comes back, answered or failed, and the loop over
\* the children goes on to the next child.
Fairness ==
    /\ WF_vars(Sleep \/ LoopExit \/ SendRequest \/ FlushFails)
    /\ WF_vars(ReceiveResponse \/ RequestFails)
    /\ WF_vars(RateLimited \/ ParseBody \/ NextPage)
    /\ WF_pos(VisitNext)

LiveSpec == Spec /\ Fairness

(***************************************************************************)
(* Extract on its own, over many more documents: every chain of up to      *)
(* MaxDepth nested elements made of the four kinds of element the          *)
(* selectors tell apart, with and without the two source attributes, and   *)
(* the nodes of the catalogue.                                             *)
(***************************************************************************)
ElementKinds ==
    { [tag |-> "div", classes |-> {}], [tag |-> "div", classes |-> {"post__media"}],
      [tag |-> "a", classes |-> {}], [tag |-> "img", classes |-> {}] }

\* the attributes every element of a chain carries
AttrModes ==
    { Attrs(None, Some(UA), Some(UB)), Attrs(None, None, Some(UB)), NoAttrs }

RECURSIVE ChainOf(_, _)
\* the elements of kinds, each the only child of the one before
ChainOf(kinds, attrs) ==
    El(Head(kinds).tag, Head(kinds).classes, attrs,
       IF Len(kinds) = 1 THEN << >> ELSE << ChainOf(Tail(kinds), attrs) >>)

InitDom ==
    /\ pc = "dom"
    /\ num_pages = 0
    /\ \/ \E n \in 1..MaxDepth : \E kinds \in [1..n -> ElementKinds] :
              \E attrs \in AttrModes : dom = ChainOf(kinds, attrs)
       \/ \E k \in Children : dom = ChildNodes[k]
    /\ image = NoImage
    /\ crop = NoCrop
    /\ Fresh

\* lines 210-246 on the node dom, with nothing seen before
ExtractDom ==
    /\ pc = "dom"
    /\ links' = (IF IsSome(Extract(dom)) THEN << Unwrap(Extract(dom)) >> ELSE << >>)
    /\ pc' = "extracted"
    /\ UNCHANGED << dom, still, num_pages, page, seen_cache, duplicate_hits,
                    next_timestamp, html, nchildren, pos, elem, result, network,
                    calls, archive >>

NextDom == ExtractDom

SpecDom == InitDom /\ [][NextDom]_vars

(***************************************************************************)
(* download_ifunny_image on its own (lines 89-100), over source images of  *)
(* many sizes.                                                             *)
(***************************************************************************)
\* a u32 is kept as its two 16-bit halves, [hi, lo] standing for
\* hi * 65536 + lo: the numbers of the checker end below 2^32
Half == 65536

U32Of(n) == [hi |-> n \div Half, lo |-> n % Half]

\* u32::MAX
MaxU32 == [hi |-> Half - 1, lo |-> Half - 1]

LeqU32(a, b) == a.hi < b.hi \/ (a.hi = b.hi /\ a.lo <= b.lo)

\* the height of the band line 95 takes off the bottom
WatermarkHeight == 20

\* a - b on u32: a build with overflow checks panics when b > a (None), a
\* build without them wraps
SubU32(a, b, overflow_checks) ==
    LET borrow == IF a.lo < b.lo THEN 1 ELSE 0
        lo     == a.lo - b.lo + borrow * Half
        hi     == a.hi - b.hi - borrow
    IN  IF hi >= 0 THEN Some([hi |-> hi, lo |-> lo])
        ELSE IF overflow_checks THEN None
             ELSE Some([hi |-> hi + Half, lo |-> lo])

\* the sizes of the source images drawn: small ones and the largest one
ImageSizes ==
    { [width |-> U32Of(w), height |-> U32Of(h)] : w \in 1..MaxWidth, h \in 0..MaxHeight }
        \cup { [width |-> MaxU32, height |-> MaxU32] }

MinU32(a, b) == IF LeqU32(a, b) THEN a ELSE b

\* image.crop_imm(0, 0, width, height): the view starts at the top left
\* corner and is cut down to what the image has
CropImm(img, width, height) ==
    [width |-> MinU32(width, img.width), height |-> MinU32(height, img.height)]

Written(c) == [tag |-> "Written", width |-> c.width, height |-> c.height]

Panicked == [tag |-> "Panicked", width |-> << >>, height |-> << >>]

Failed == [tag |-> "Failed", width |-> << >>, height |-> << >>]

InitImage ==
    /\ pc = "image"
    /\ num_pages = 0
    /\ dom = TextNode
    /\ image \in ImageSizes
    /\ crop = NoCrop
    /\ Fresh

\* lines 95-99: the image was fetched and decoded; it is cropped, encoded
\* and written.  Whether the build checks for overflow is not known.
CropAndWrite ==
    /\ pc = "image"
    /\ \E overflow_checks \in BOOLEAN :
         LET height == SubU32(image.height, U32Of(WatermarkHeight), overflow_checks)
         IN  crop' = IF IsSome(height)
                     THEN Written(CropImm(image, image.width, Unwrap(height)))
                     ELSE Panicked
    /\ pc' = "downloaded"
    /\ UNCHANGED << dom, image, num_pages, collector, result, network, calls, archive >>

\* lines 91-98: fetching, decoding, encoding or writing fails
ImageDownloadFails ==
    /\ pc = "image"
    /\ crop' = Failed
    /\ pc' = "downloaded"
    /\ UNCHANGED << dom, image, num_pages, collector, result, network, calls, archive >>

NextImage ==
    \/ CropAndWrite
    \/ ImageDownloadFails

SpecImage == InitImage /\ [][NextImage]_vars

(***************************************************************************)
(* Properties.                                                             *)
(***************************************************************************)
\* get_links has been called and has not returned
RunningPcs == {"loop", "send", "await", "check", "children"}

Running == pc \in RunningPcs

\* a step of the loop over the children: elem' is the node it visits
VisitStep == pc = "children" /\ pos' = pos + 1

\* the node visited by a VisitStep yields a URL that was seen before
VisitsDuplicate ==
    /\ VisitStep
    /\ IsSome(Extracted[elem'])
    /\ Url(Unwrap(Extracted[elem'])) \in seen_cache

\* get_links returned from inside the loop over the children
ReturnedEarly == pc = "returned" /\ result.tag = "Ok" /\ html # None

\* C1 as stated: collection stops at the second occurrence of a URL, so
\* while get_links runs no URL has been extracted twice.
C1_StopsAtSecondOccurrence == Running => duplicate_hits = 0

\* C1 amended: collection goes on after the first duplicate hit and stops at
\* the second one (the second time an extracted URL is already in the seen
\* set); it then returns the references appended before that hit, visits no
\* further node, sleeps no more and requests no further page.
C1_StopsAtSecondDuplicate ==
    /\ [][VisitsDuplicate =>
           (IF duplicate_hits = 0
            THEN pc' = "children" /\ links' = links /\ result' = Pending
            ELSE pc' = "returned" /\ result' = Ok(links))]_vars
    /\ [][pc = "returned" =>
           (/\ pc' \notin RunningPcs
            /\ (UNCHANGED << result, nrequests, sleeps >>))]_vars
    /\ [][(pc \in {"spawn", "join", "exit"}) =>
           (/\ pc' \notin RunningPcs \cup {"returned"}
            /\ (UNCHANGED << result, nrequests, sleeps >>))]_vars

\* C1: the second duplicate hit ended the collection on the second page,
\* which had a further child
C1_Witness ==
    /\ ReturnedEarly
    /\ duplicate_hits = 2
    /\ result.links = links
    /\ links # << >>
    /\ page = 1
    /\ pos < nchildren

\* C2: the counter starts at 0, goes up by one exactly on a visit that
\* yields a URL already seen (which appends nothing), never goes down and is
\* not reset at a page boundary; get_links runs on while it is below 2 and
\* has returned early, with the links appended so far, exactly when it is 2.
C2_DuplicateHitCounter ==
    /\ [](pc = "start" => duplicate_hits = 0)
    /\ [](Running => duplicate_hits < 2)
    /\ [](pc = "returned" =>
            /\ ReturnedEarly <=> duplicate_hits = 2
            /\ ReturnedEarly => result = Ok(links))
    /\ [][pc = "start" => duplicate_hits' = 0]_vars
    /\ [][Running =>
           (IF VisitsDuplicate
            THEN /\ duplicate_hits' = duplicate_hits + 1
                 /\ links' = links
                 /\ seen_cache' = seen_cache
            ELSE duplicate_hits' = duplicate_hits)]_vars

\* C2: the second hit came with the first child of the second page, so the
\* first hit was counted on the page before
C2_Witness ==
    /\ ReturnedEarly
    /\ duplicate_hits = 2
    /\ page = 1
    /\ pos = 1
    /\ links # << >>

\* C3: on an empty body get_links returns the RateLimited error, which
\* carries no links; once get_links has failed no page is requested and no
\* sleep is made.
C3_EmptyBodyRateLimited ==
    /\ [][pc = "check" /\ html = Some("") =>
           (/\ pc' = "returned"
            /\ result' = Err("RateLimited")
            /\ (UNCHANGED << nrequests, sleeps, in_flight >>))]_vars
    /\ [][result.tag = "Err" =>
           (/\ pc' \notin RunningPcs
            /\ (UNCHANGED << result, nrequests, sleeps >>))]_vars
    /\ [](result.tag = "Err" => result.links = << >> /\ media_links = << >>)

\* C3: the second page came back empty after links had been collected
C3_Witness ==
    /\ pc = "returned"
    /\ result = Err("RateLimited")
    /\ page = 1
    /\ Len(links) >= 2
    /\ nrequests = 2

\* what the node k adds to the links when its URL is new
Yielded(k) == IF IsSome(Extracted[k]) THEN << Unwrap(Extracted[k]) >> ELSE << >>

\* C4: while no URL repeats, every visit appends what the node yields (one
\* reference or nothing) at the end of the links, nothing else changes the
\* links, and when the loop over the pages ends get_links returns these
\* links, having requested num_pages pages.
C4_NoRepeatsCollectsAll ==
    /\ [][VisitStep /\ duplicate_hits' = 0 =>
           (links' = links \o Yielded(elem'))]_vars
    /\ [][Running /\ ~VisitStep => links' = links]_vars
    /\ [][pc = "loop" /\ pc' = "returned" =>
           (/\ result' = Ok(links)
            /\ nrequests = num_pages
            /\ page = num_pages)]_vars
    /\ [](pc = "returned" /\ result.tag = "Ok" /\ duplicate_hits = 0 =>
            /\ nrequests = num_pages
            /\ result.links = links)

\* C4: two pages without a repeat gave three links, in the order extracted
C4_Witness ==
    /\ pc = "returned"
    /\ duplicate_hits = 0
    /\ num_pages = 2
    /\ nrequests = 2
    /\ result = Ok(<< Still(UC), Moving(UA), Still(UB) >>)

\* C5: the cursor starts unset; a request sent while it is unset carries a
\* clock reading, a request sent while it is set carries its value; a visit
\* sets it to the node's data-next when that parses and leaves it alone
\* otherwise; nothing else changes it, so it never goes back to unset.
C5_NextPageCursor ==
    /\ [](pc = "start" => next_timestamp = None)
    /\ [][pc = "start" => next_timestamp' = None]_vars
    /\ [][pc = "send" /\ pc' = "await" =>
           (/\ IsSome(request')
            /\ IF next_timestamp = None
               THEN \E t \in ClockReadings : Unwrap(request').timeline = FormatU64(t)
               ELSE Unwrap(request').timeline = FormatF64(Unwrap(next_timestamp)))]_vars
    /\ [][Running =>
           (IF VisitStep /\ IsSome(ParsedNext[elem'])
            THEN next_timestamp' = ParsedNext[elem']
            ELSE next_timestamp' = next_timestamp)]_vars

\* C5: the second request carries the cursor 7 that a data-next of "7.0" on
\* the first page set, and a later node without the attribute left alone
C5_Witness ==
    /\ pc = "await"
    /\ nrequests = 2
    /\ next_timestamp = Some(70)
    /\ request = Some(RequestUrl(UserName, 70, 1))
    /\ Unwrap(request).timeline = << "7" >>

\* the video-media marker of a node: the first match of the video selector
\* below it; its image-media marker likewise
VidMarker(node) == SelectFirst(node, vid_media_selector)

ImgMarker(node) == SelectFirst(node, img_media_selector)

\* the references C6 lets a node yield
Classified(node) ==
    IF IsSome(VidMarker(node)) /\ IsSome(Unwrap(VidMarker(node)).attrs.data_source)
    THEN << Moving(Unwrap(Unwrap(VidMarker(node)).attrs.data_source)) >>
    ELSE IF IsSome(ImgMarker(node)) /\ IsSome(Unwrap(ImgMarker(node)).attrs.data_src)
         THEN << Still(Unwrap(Unwrap(ImgMarker(node)).attrs.data_src)) >>
         ELSE << >>

\* C6: an element yields a Moving reference when its video marker carries a
\* source, else a Still one when its image marker carries a source, else
\* nothing (it is skipped).  The image selector continues the video
\* selector, so no element has an image marker without a video marker: the
\* case of an image marker and no video marker does not arise.
C6_Classification ==
    pc = "extracted" /\ IsElement(dom) =>
        /\ links = Classified(dom)
        /\ IsSome(ImgMarker(dom)) => IsSome(VidMarker(dom))

\* C6: an element whose video marker has no source and whose image marker
\* has one yielded a Still reference
C6_Witness ==
    /\ pc = "extracted"
    /\ IsSome(VidMarker(dom))
    /\ ~IsSome(Unwrap(VidMarker(dom)).attrs.data_source)
    /\ IsSome(ImgMarker(dom))
    /\ links = << Still(UB) >>

\* the URLs of the references in ls
UrlsOf(ls) == { Url(ls[i]) : i \in 1..Len(ls) }

\* C7: no two references of the result have the same URL, whatever their
\* kinds; the seen set is the set of the URLs in the result; it only grows
\* while get_links runs.
C7_SeenSetAndResult ==
    /\ [](\A i, j \in 1..Len(links) : Url(links[i]) = Url(links[j]) => i = j)
    /\ [](seen_cache = UrlsOf(links))
    /\ [](pc = "returned" /\ result.tag = "Ok" =>
            \A i, j \in 1..Len(result.links) :
                Url(result.links[i]) = Url(result.links[j]) => i = j)
    /\ [][Running => seen_cache \subseteq seen_cache']_vars

\* C7: a URL collected as a Moving reference came again as a Still one and
\* was counted as a duplicate
C7_Witness ==
    /\ pc = "children"
    /\ links = << Moving(UA) >>
    /\ elem # NoNode
    /\ Extracted[elem] = Some(Still(UA))
    /\ duplicate_hits = 1
    /\ seen_cache = { UA }

\* the report line with this text has been printed
Printed(text) == \E i \in 1..Len(stdout) : stdout[i].line = text

\* C8: get_links is called once; links.txt is written only after get_links
\* returned Ok; no download exists, let alone runs, before links.txt is
\* written; there is one download per collected reference, in order; the
\* totals are printed only when each of them is done.
C8_ArchiveOrder ==
    /\ calls <= 1
    /\ pc \notin {"start"} /\ exit # Err("Io") => calls = 1
    /\ IsSome(manifest) =>
          /\ result.tag = "Ok"
          /\ pc \notin RunningPcs \cup {"start", "returned"}
          /\ media_links = result.links
    /\ futs # << >> => IsSome(manifest)
    /\ pc \in {"join"} \/ Printed("Downloaded") =>
          /\ Len(futs) = Len(media_links)
          /\ \A i \in 1..Len(futs) : futs[i].link = media_links[i]
    /\ Printed("Downloaded") =>
          /\ \A i \in 1..Len(futs) : futs[i].state = "done"
          /\ stdout[Len(stdout)] = [line |-> "Downloaded", count |-> Len(result.links)]

\* C8: the totals were printed after three downloads
C8_Witness ==
    /\ Printed("Downloaded")
    /\ calls = 1
    /\ Len(media_links) = 3
    /\ \A i \in 1..Len(futs) : futs[i].state = "done"

\* C9 as stated: two downloads that run at the same time never write to
\* the same file.
C9_DistinctDestinations ==
    \A i, j \in 1..Len(futs) :
        /\ i # j
        /\ futs[i].state = "running"
        /\ futs[j].state = "running"
        => futs[i].location # futs[j].location

\* C10: once a download has failed archive_user has returned its error:
\* the totals are not printed, no download is left to run, and from then on
\* no download changes state (none is retried, none is started); the totals
\* are printed only when every download is done.
C10_DownloadFailureAborts ==
    /\ []((\E i \in 1..Len(futs) : futs[i].state = "failed") =>
            /\ pc = "exit"
            /\ exit = Err("Download")
            /\ ~Printed("Downloaded")
            /\ \A j \in 1..Len(futs) : futs[j].state \notin {"created", "running"})
    /\ [](Printed("Downloaded") =>
            /\ exit = Ok(<< >>)
            /\ \A i \in 1..Len(futs) : futs[i].state = "done")
    /\ [][(\E i \in 1..Len(futs) : futs[i].state = "failed") =>
            (UNCHANGED << futs, files, stdout, exit >>)]_vars

\* C10: one download failed after another one was done and while a third
\* one had not been started
C10_Witness ==
    /\ pc = "exit"
    /\ exit = Err("Download")
    /\ \E i, j, k \in 1..Len(futs) :
          /\ futs[i].state = "failed"
          /\ futs[j].state = "done"
          /\ futs[k].state = "dropped"

\* C11: when get_links fails with RateLimited, archive_user returns this very
\* error at once: links.txt is not written, no download is created, nothing
\* is reported, and nothing happens afterwards.  When get_links returns from
\* inside the loop at the second duplicate hit, archive_user takes it for
\* success: its next step writes links.txt with the links collected (or fails
\* on writing the file), one download is created for each of them, and the
\* totals are printed only with each of their files written.
C11_RateLimitedAbortsEarlyStopSucceeds ==
    /\ [][pc = "returned" /\ result = Err("RateLimited") =>
           (/\ pc' = "exit"
            /\ exit' = Err("RateLimited")
            /\ (UNCHANGED << manifest, futs, files, stdout >>))]_vars
    /\ [](exit = Err("RateLimited") =>
            /\ pc = "exit"
            /\ result = exit
            /\ manifest = None
            /\ futs = << >>
            /\ DOMAIN files = {}
            /\ stdout = << >>)
    /\ [][exit = Err("RateLimited") => (UNCHANGED archive)]_vars
    /\ [][ReturnedEarly =>
           (\/ /\ pc' = "spawn"
               /\ manifest' = Some(LinksStr(links))
               /\ media_links' = links
               /\ exit' = Pending
            \/ /\ pc' = "exit"
               /\ exit' = Err("Io")
               /\ manifest' = None)]_vars
    /\ [](pc = "join" \/ Printed("Downloaded") =>
            /\ result.tag = "Ok"
            /\ Len(futs) = Len(result.links)
            /\ \A i \in 1..Len(futs) : futs[i].link = result.links[i])
    /\ [](Printed("Downloaded") =>
            \A i \in 1..Len(futs) : futs[i].location \in DOMAIN files)

\* C11: the second page came back empty; archive_user has returned the
\* RateLimited error with nothing written
C11_Witness ==
    /\ pc = "exit"
    /\ exit = Err("RateLimited")
    /\ result = Err("RateLimited")
    /\ nrequests = 2
    /\ manifest = None
    /\ futs = << >>
    /\ stdout = << >>

RECURSIVE Offset(_, _)
\* the number of characters of the manifest before the i-th URL of ls, each
\* URL before it being followed by one newline
Offset(ls, i) == IF i = 1 THEN 0 ELSE Offset(ls, i - 1) + Len(Url(ls[i - 1])) + 1

\* C12: links.txt, once written, holds the URLs of the references get_links
\* returned, each in its place in collection order whatever its kind, one
\* newline between two neighbours and nothing else: nothing after the last
\* URL, and no character at all for an empty collection.
C12_ManifestContent ==
    IsSome(manifest) =>
        LET m  == Unwrap(manifest)
            ls == result.links
            n  == Len(ls)
        IN  /\ result.tag = "Ok"
            /\ media_links = ls
            /\ IF n = 0 THEN m = << >>
               ELSE /\ Len(m) = Offset(ls, n + 1) - 1
                    /\ \A i \in 1..n :
                           SubSeq(m, Offset(ls, i) + 1, Offset(ls, i) + Len(Url(ls[i])))
                               = Url(ls[i])
                    /\ \A i \in 1..(n - 1) : m[Offset(ls, i + 1)] = "\n"

\* C12: three references of both kinds were saved as three lines
C12_Witness ==
    /\ result = Ok(<< Still(UC), Moving(UA), Still(UB) >>)
    /\ manifest = Some(<< "y", "\n", "a", "/", "x", "\n", "b", "/", "x" >>)

\* C13: at most one page request is in flight; a request is sent only right
\* after a sleep, one sleep for each request, the first included (between
\* the sleep and the request nothing happens but the printing of the
\* progress line, which may fail); a sleep begins only with no request in
\* flight and as many requests sent as sleeps made; the child nodes of a
\* page are visited after its request was answered and before the next
\* sleep, and while one of them is left neither a sleep nor a request is
\* made; the request sent after i earlier ones carries the page index i.
C13_SequentialFetches ==
    /\ [](in_flight \in {0, 1})
    /\ [](in_flight = 1 <=> pc = "await")
    /\ [][nrequests' # nrequests =>
           (/\ pc = "send"
            /\ nrequests' = nrequests + 1
            /\ sleeps = nrequests + 1
            /\ in_flight = 0
            /\ in_flight' = 1
            /\ page = nrequests
            /\ Unwrap(request').page = FormatU64(nrequests))]_vars
    /\ [][sleeps' # sleeps =>
           (/\ sleeps' = sleeps + 1
            /\ sleeps = nrequests
            /\ in_flight = 0
            /\ pc' = "send")]_vars
    /\ [][pc = "send" =>
           (/\ pc' \in {"await", "returned"}
            /\ sleeps' = sleeps
            /\ pc' = "await" => nrequests' = nrequests + 1)]_vars
    /\ [][VisitStep =>
           (/\ sleeps = nrequests
            /\ in_flight = 0
            /\ page = nrequests - 1
            /\ (UNCHANGED << sleeps, nrequests, in_flight >>))]_vars
    /\ [][pc = "children" /\ pos < nchildren =>
           (UNCHANGED << sleeps, nrequests, in_flight, page >>)]_vars

\* C13: the second request is in flight after two sleeps and carries the
\* page index 1; the first page gave two links
C13_Witness ==
    /\ pc = "await"
    /\ in_flight = 1
    /\ sleeps = 2
    /\ nrequests = 2
    /\ Unwrap(request).page = << "1" >>
    /\ Len(links) = 2

\* the file name of the download fut: its location without the folder
NameOf(fut) == SubSeq(fut.location, Len(UserName) + 2, Len(fut.location))

\* name is what follows the last '/' of url
IsLastSegment(name, url) ==
    /\ Positions(name, "/") = {}
    /\ Len(url) > Len(name)
    /\ SubSeq(url, Len(url) - Len(name), Len(url)) = << "/" >> \o name

\* C14 as stated: the file name of a download is what follows the last '/'
\* of its URL, and for a URL without '/' it is a reading of the clock in
\* seconds, written in decimal.
C14_FileNameSegmentOrClock ==
    \A i \in 1..Len(futs) :
        IF Positions(Url(futs[i].link), "/") # {}
        THEN IsLastSegment(NameOf(futs[i]), Url(futs[i].link))
        ELSE \E t \in ClockReadings : NameOf(futs[i]) = FormatU64(t)

\* the number n more than the u32 a, in halves; the upper half is out of
\* range when the sum is no u32
PlusU32(a, n) ==
    LET lo == a.lo + n
    IN  [hi |-> a.hi + lo \div Half, lo |-> lo % Half]

\* C15 as stated: whatever the height h and the width w of the decoded
\* image, h below 20 included, the download never comes to grief over the
\* subtraction h - 20, and the image it writes has the height h - 20 (with
\* 20 more it is as high as the source) and the width w.
C15_CropHeight ==
    pc = "downloaded" =>
        /\ crop.tag # "Panicked"
        /\ crop.tag = "Written" =>
              /\ PlusU32(crop.height, WatermarkHeight) = image.height
              /\ crop.width = image.width

\* the ways get_links can have ended, told apart in the state it returns to
RateLimitedEnd == result = Err("RateLimited") /\ html = Some("")

EarlyEnd == result = Ok(links) /\ html # None /\ duplicate_hits = DuplicateLimit

FullEnd ==
    /\ result = Ok(links)
    /\ html = None
    /\ page = num_pages
    /\ nrequests = num_pages
    /\ duplicate_hits < DuplicateLimit

ErrorPassedOn == result.tag = "Err" /\ result.err \in {"Io", "Network"}

ExactlyOne(bs) == Cardinality({ i \in DOMAIN bs : bs[i] }) = 1

\* C16 as stated: with every request answered, get_links has ended in
\* exactly one of three ways whenever it has returned: the RateLimited
\* error, success at the second duplicate hit, or success after the last
\* page.
C16_ThreeWaysToEnd ==
    pc = "returned" /\ result # Err("Network") =>
        ExactlyOne(<< RateLimitedEnd, EarlyEnd, FullEnd >>)

\* C16 amended: with every request coming back, get_links returns in the
\* end; it never makes more than num_pages requests or sleeps; it has ended
\* in exactly one of four ways: the RateLimited error, success at the second
\* duplicate hit, success after the last page, or an error passed on from
\* flushing the progress line or from the request; and with num_pages = 0 it
\* returns the empty vector without a sleep or a request.
C16_TerminatesBounded ==
    /\ Running ~> pc = "returned"
    /\ [](nrequests <= num_pages /\ sleeps <= num_pages)
    /\ [](pc = "returned" =>
            ExactlyOne(<< RateLimitedEnd, EarlyEnd, FullEnd, ErrorPassedOn >>))
    /\ [][pc = "loop" /\ num_pages = 0 =>
           (pc' = "returned" /\ result' = Ok(<< >>))]_vars
    /\ [](num_pages = 0 => sleeps = 0 /\ nrequests = 0 /\ result.links = << >>)

\* C16: get_links ended with the error of flushing the progress line of the
\* second page, after the first page had given links
C16_Witness ==
    /\ pc = "returned"
    /\ result = Err("Io")
    /\ sleeps = 2
    /\ nrequests = 1
    /\ links # << >>

\* C17: a visit of a child that yields no reference (it has no video
\* marker, or its marker has no source and there is no image with a source)
\* leaves the links, the seen set and the duplicate counter as they were
\* and does not end the collection; the cursor is still set from the
\* data-next of such an element when that parses, and is left alone
\* otherwise.
C17_NoMediaFrame ==
    [][VisitStep /\ Extracted[elem'] = None =>
        (/\ (UNCHANGED << links, seen_cache, duplicate_hits, result >>)
         /\ pc' = "children"
         /\ next_timestamp' =
               (IF IsElement(ChildNodes[elem']) /\ IsSome(ParsedNext[elem'])
                THEN ParsedNext[elem']
                ELSE next_timestamp))]_vars

\* C17: the first child of the first page yielded no reference and set the
\* cursor, which was unset before, to 7
C17_Witness ==
    /\ pc = "children"
    /\ page = 0
    /\ pos = 1
    /\ elem # NoNode
    /\ Extracted[elem] = None
    /\ next_timestamp = Some(70)
    /\ links = << >>
    /\ seen_cache = {}
    /\ duplicate_hits = 0

====
